---- MODULE Spec2Model ----
(***************************************************************************)
(* A model of src/src/toad.ts: the Toad router (registration of middleware *)
(* and routes, sub-router mounting, request dispatch through the           *)
(* middleware chain) and the createMiddleware factory.                     *)
(*                                                                         *)
(* Strings that the code takes apart (paths, URLs) are sequences of        *)
(* one-character strings.  JavaScript arrays are objects with identity, so *)
(* every array the code creates lives in the heap `arrays` and is referred *)
(* to by a name; a Memoirist table is a set of entries, and the tables the *)
(* code creates live in the heaps `router` and `stackRouter`.              *)
(***************************************************************************)
EXTENDS Integers, Sequences, FiniteSets, TLC

VARIABLES
    toads,        \* the Toad instances of the mount tree; toads[1] is the root
    arrays,       \* heap of middleware arrays (#stack and the copies made of it)
    router,       \* heap of route tables (#router, a Memoirist)
    stackRouter,  \* heap of stack tables (#stackRouter, a Memoirist)
    rq            \* the handle() calls in flight, one per request slot

vars == <<toads, arrays, router, stackRouter, rq>>

-----------------------------------------------------------------------------
(* Bounds of the model                                                     *)

MaxToads == 2      \* Spec: Toad instances of the mount tree (root included)
MaxUses == 2       \* Spec: use calls made on the mount tree
MaxRoutes == 1     \* Spec: Route Entries in the route table
MaxTreeToads == 3  \* SpecTree: Toad instances of the mount tree
MaxTreeUses == 3   \* SpecTree: use calls made on the mount tree
MaxTreeRoutes == 1 \* SpecTree: Route Entries in the route table
MaxChain == 3      \* SpecChain: use calls made on the router
MaxPair == 2       \* SpecPair: use calls made on the router
MaxNest == 3       \* SpecNest: use calls made on the router
MaxFail == 3       \* SpecFail: use calls made on the router
MaxNormLen == 4    \* SpecNorm: characters of a path
MaxLive == 3       \* SpecLive: use calls made on the router

-----------------------------------------------------------------------------
(* Strings                                                                 *)

Null == [null |-> TRUE]

IsPrefix(p, s) == /\ Len(p) <= Len(s)
                  /\ SubSeq(s, 1, Len(p)) = p

Last(s) == s[Len(s)]

Front(s) == SubSeq(s, 1, Len(s) - 1)

\* (mutant) runs of slashes are kept
KeepSlashRuns(s) == s

\* String.prototype.replaceAll(/\/+/g, "/")
RECURSIVE CollapseSlashes(_)
CollapseSlashes(s) ==
    IF Len(s) <= 1 THEN s
    ELSE IF s[1] = "/" /\ s[2] = "/" THEN CollapseSlashes(Tail(s))
    ELSE <<s[1]>> \o CollapseSlashes(Tail(s))

\* (mutant) the slashes at the end are kept
KeepTrailingSlashes(s) == s

\* String.prototype.replace(/\/*$/, "")
RECURSIVE StripTrailingSlashes(_)
StripTrailingSlashes(s) ==
    IF s # <<>> /\ Last(s) = "/" THEN StripTrailingSlashes(Front(s)) ELSE s

\* Toad.#normalizePath
normalizePath(path) ==
    LET p == StripTrailingSlashes(CollapseSlashes(<<"/">> \o path))
    IN  IF p = <<>> THEN <<"/">> ELSE p

\* request.url.split("/").slice(3).join("/"): what follows the third slash
\* of the URL.  `url` is a sequence of characters.
RECURSIVE AfterSlashes(_, _)
AfterSlashes(url, n) ==
    IF n = 0 THEN url
    ELSE IF url = <<>> THEN <<>>
    ELSE IF url[1] = "/" THEN AfterSlashes(Tail(url), n - 1)
    ELSE AfterSlashes(Tail(url), n)

UrlPath(url) == AfterSlashes(url, 3)

\* new Request(origin + pathname).url, for an origin "http://h"
Origin == <<"h", ":", "/", "/", "h">>

RequestUrl(pathname) == Origin \o (IF pathname = <<>> THEN <<"/">> ELSE pathname)

-----------------------------------------------------------------------------
(* Memoirist, the path matcher the router stores its entries in.  The      *)
(* paths of the model contain static characters and a trailing "*" only.   *)

IsWildcard(path) == path # <<>> /\ Last(path) = "*"

\* Memoirist.add: an empty path is "/", a path gets a leading slash; the
\* store of a node is set only when the node has none yet.
MemoPath(path) ==
    IF path = <<>> THEN <<"/">>
    ELSE IF path[1] # "/" THEN <<"/">> \o path
    ELSE path

MemoAdd(table, method, path, store) ==
    LET p == MemoPath(path)
    IN  IF \E e \in table : e.method = method /\ e.path = p
        THEN table
        ELSE table \cup {[method |-> method, path |-> p, store |-> store]}

\* Memoirist.find: a static node that ends the URL wins, then the wildcard
\* store of the deepest node on the URL's path.
MemoFind(table, method, url) ==
    LET statics == {e \in table : /\ e.method = method
                                  /\ ~IsWildcard(e.path)
                                  /\ e.path = url}
        wilds   == {e \in table : /\ e.method = method
                                  /\ IsWildcard(e.path)
                                  /\ IsPrefix(Front(e.path), url)}
    IN  IF statics # {}
        THEN [store |-> (CHOOSE e \in statics : TRUE).store,
              params |-> [k \in {} |-> <<>>]]
        ELSE IF wilds # {}
        THEN LET w == CHOOSE e \in wilds :
                          \A f \in wilds : Len(f.path) <= Len(e.path)
             IN  [store |-> w.store,
                  params |-> [k \in {"*"} |->
                                 SubSeq(url, Len(w.path), Len(url))]]
        ELSE Null

-----------------------------------------------------------------------------
(* Middleware units and handlers: the functions a caller hands to use and  *)
(* to the verb methods.                                                    *)

EmptyLocals == [k \in {} |-> ""]

\* { ...a, ...b }
Spread(a, b) ==
    [k \in DOMAIN a \cup DOMAIN b |-> IF k \in DOMAIN b THEN b[k] ELSE a[k]]

\* createMiddleware(before, after).  `before` is the value the before
\* callback returns, `after` tells whether an after callback was supplied.
\* What the returned unit does is in StepUnit.
createMiddleware(before, after) ==
    [flow |-> "createMiddleware", out |-> before, after |-> after]

\* A hand-written middleware (README, "raw middleware flow"), described by
\* what it does with next:
\*   "spread"  return next({ ...locals, ...out })
\*   "replace" return next(out)
\*   "short"   return a response of its own, next is not called
\*   "wrap"    await next(locals), return a new response made from its
\*   "twice"   await next(locals); return next(locals)
\*   "fail"    throws before it calls next
\*   "catch"   try { return await next(locals) } catch { return a response
\*             of its own }
RawMiddleware(flow, out) ==
    [flow |-> flow, out |-> out, after |-> FALSE]

Unit(md) ==
    CASE md = "mA"  -> createMiddleware([a |-> "1"], FALSE)
      [] md = "mB"  -> createMiddleware([b |-> "2"], TRUE)
      [] md = "mC"  -> createMiddleware([c |-> "3"], TRUE)
      [] md = "mD"  -> createMiddleware([d |-> "4"], FALSE)
      [] md = "mE"  -> createMiddleware([e |-> "5"], FALSE)
      [] md = "mA2" -> createMiddleware([a |-> "9"], TRUE)
      [] md = "rSpread"  -> RawMiddleware("spread", [r |-> "6"])
      [] md = "rReplace" -> RawMiddleware("replace", [r |-> "7"])
      [] md = "rShort"   -> RawMiddleware("short", EmptyLocals)
      [] md = "rWrap"    -> RawMiddleware("wrap", EmptyLocals)
      [] md = "rTwice"   -> RawMiddleware("twice", EmptyLocals)
      [] md = "rFail"    -> RawMiddleware("fail", EmptyLocals)
      [] md = "rCatch"   -> RawMiddleware("catch", EmptyLocals)
      [] md = "mFail"    -> createMiddleware(EmptyLocals, TRUE)

\* The functions of the model that throw: the unit rFail, the before
\* callback of mFail, the handler hFail.
Failing == {"rFail", "mFail", "hFail"}

\* what a failing function throws
Failure(fn) == [throw |-> "failed", by |-> fn]

IsFailure(v) == "throw" \in DOMAIN v

\* The units of the registration model, in the order the use calls register
\* them, and the units a use call of the chain model chooses from.
RegUnits == <<"mA", "mB", "mC", "mD", "mE">>
ChainUnits == {"mA", "mB", "mA2", "rSpread", "rReplace", "rShort", "rWrap",
               "rTwice"}
Handlers == {"h1"}
Methods == {"GET", "POST"}
RouteMethods == {"GET"}
MountPaths == { <<"/", "a">> }
RoutePaths == { <<"/">>, <<"/", "x">> }
\* pathnames of the requests: "", "//x/", "/a", "/a//x/"
ReqPaths == { <<>>, <<"/", "/", "x", "/">>, <<"/", "a">>,
              <<"/", "a", "/", "/", "x", "/">> }
TreeMethods == {"GET"}
TreeRoutePaths == { <<"/", "x">> }
\* "//x/", "/a//x/", "/a/a/x"
TreeReqPaths == { <<"/", "/", "x", "/">>,
                  <<"/", "a", "/", "/", "x", "/">>,
                  <<"/", "a", "/", "a", "/", "x">> }
ChainReqPaths == { <<>>, <<"/", "x">> }

-----------------------------------------------------------------------------
(* Construction and registration                                           *)

Slots == {1, 2}

Idle == [st |-> "idle"]

Serving == \E s \in Slots : rq[s].st # "idle"

\* (mutant) only the Stack Entry at the base path is registered
constructorBaseOnly(basePath, stack, table) ==
    MemoAdd(table, "GET", basePath, [stack |-> stack])

\* Toad.constructor: the two Stack Entries of a router hold its array.
constructor(basePath, stack, table) ==
    LET stackPath == basePath \o <<"/", "*">>
    IN  MemoAdd(MemoAdd(table, "GET", stackPath, [stack |-> stack]),
                "GET", basePath, [stack |-> stack])

\* createToad(): new Toad("") with a new empty array and new tables.
Init ==
    /\ toads = << [basePath |-> <<>>, stack |-> [toad |-> 1],
                   stackRouter |-> 1, router |-> 1] >>
    /\ arrays = ([toad |-> 1] :> <<>>)
    /\ router = (1 :> {})
    /\ stackRouter = (1 :> constructor(<<>>, [toad |-> 1], {}))
    /\ rq = [s \in Slots |-> Idle]

\* The tables a Toad instance looks its entries up in.
Routes(t) == router[toads[t].router]

StackEntries(t) == stackRouter[toads[t].stackRouter]

\* (mutant) this.#stack = [...this.#stack, md]: the router is given a new
\* array, the entries that hold the older one do not see the unit
useRebind(t, md) ==
    LET stack == [toad |-> t, len |-> Len(arrays[toads[t].stack]) + 1]
    IN  /\ arrays' = (stack :> Append(arrays[toads[t].stack], md)) @@ arrays
        /\ toads' = [toads EXCEPT ![t].stack = stack]
        /\ UNCHANGED <<router, stackRouter, rq>>

\* Toad.use: this.#stack.push(md)
use(t, md) ==
    /\ arrays' = [arrays EXCEPT ![toads[t].stack] = Append(@, md)]
    /\ UNCHANGED <<toads, router, stackRouter, rq>>

\* (mutant) the Route Entry holds the router's own array
RouteStackShared(t, method, path) == toads[t].stack

\* [...this.#stack] in #addRoute: the array the Route Entry holds is a new
\* one (named after the entry it is made for).
RouteStack(t, method, path) == [method |-> method, path |-> path]

\* Toad.#addRoute
addRoute(t, method, path, fn) ==
    LET normalizedPath == normalizePath(path)
        stack == RouteStack(t, method, normalizedPath)
        store == [matchingRoute |-> path,
                  stack |-> stack,
                  handler |-> fn]
        table == MemoAdd(Routes(t), method, normalizedPath, store)
    IN  /\ router' = [router EXCEPT ![toads[t].router] = table]
        \* when Memoirist kept the older store the copy is garbage
        /\ arrays' = IF table = Routes(t) THEN arrays
                     ELSE (stack :> arrays[toads[t].stack]) @@ arrays
        /\ UNCHANGED <<toads, stackRouter, rq>>

\* Toad.get, post, put, patch, delete, connect, options, trace
verb(t, method, path, fn) ==
    addRoute(t, method, toads[t].basePath \o path, fn)

\* (mutant) the sub-router is given the array of its parent
MountStackShared(t) == toads[t].stack

\* [...this.#stack] in route: the sub-router's array is a new one.
MountStack(t) == [toad |-> Len(toads) + 1]

\* this.#stackRouter and this.#router in route: the sub-router is given
\* the tables of its parent.
MountStackRouter(t) == toads[t].stackRouter

\* (mutant) the sub-router is given a route table of its own
MountRouterOwn(t) == Len(toads) + 1

MountRouter(t) == toads[t].router

\* The table heap[id], empty when the heap has no such table yet.
Table(heap, id) == IF id \in DOMAIN heap THEN heap[id] ELSE {}

\* Toad.route: new Toad(basePath + path, copy of the array, the tables).
route(t, path) ==
    LET basePath == toads[t].basePath \o path
        stack == MountStack(t)
        sr == MountStackRouter(t)
        r == MountRouter(t)
    IN  /\ arrays' = (stack :> arrays[toads[t].stack]) @@ arrays
        /\ toads' = Append(toads, [basePath |-> basePath, stack |-> stack,
                                   stackRouter |-> sr, router |-> r])
        /\ stackRouter' = (sr :> constructor(basePath, stack,
                                             Table(stackRouter, sr)))
                              @@ stackRouter
        /\ router' = (r :> Table(router, r)) @@ router
        /\ UNCHANGED rq

-----------------------------------------------------------------------------
(* Dispatch.  A handle() call in flight is a record: the resolved handler  *)
(* and stack, the context ctx and the cursor i of the closure next, the    *)
(* frames of the units that were invoked and have not returned, and `log`, *)
(* the trace of what was invoked with what.                                *)

\* Response.json({ message: "Not found" }, { status: 404 })
NotFound == [status |-> 404, body |-> [message |-> "Not found"], by |-> "next"]

\* The handlers of the model answer Response.json(ctx.locals).
HandlerResponse(fn, ctx) == [status |-> 200, body |-> ctx.locals, by |-> fn]

\* The response of a unit that answers by itself.
OwnResponse(md) == [status |-> 401, body |-> [message |-> "stop"], by |-> md]

\* new Response(resp.body, resp): another response with the same content.
WrapResponse(md, resp) == [resp EXCEPT !.by = md]

Top(q) == q.frames[Len(q.frames)]

Pop(q) == [q EXCEPT !.frames = Front(@)]

Caller(q) == IF q.frames = <<>> THEN -1 ELSE Top(q).idx

\* (mutant) try { return await next({}) } catch { return a 500 }
OutcomeCaught(v) ==
    IF IsFailure(v)
    THEN [status |-> 500, body |-> [message |-> "error"], by |-> "handle"]
    ELSE v

\* return next({}) in handle: what the chain yields, a response or a
\* failure, is what handle yields
Outcome(v) == v

\* A value is returned, or a failure thrown, to the caller on top of the
\* frames, or, when no frame is left, by handle itself.
Deliver(q, v) ==
    IF q.frames = <<>>
    THEN [q EXCEPT !.st = "done", !.result = Outcome(v)]
    ELSE [q EXCEPT !.frames[Len(q.frames)].pc = "resumed",
                   !.frames[Len(q.frames)].resp = v,
                   !.log = Append(@, [ev |-> "resumed", idx |-> Top(q).idx,
                                      resp |-> v])]

\* (mutant) i >= stack.length - 1: the last unit of the stack is skipped
AtEndOffByOne(q) == q.i >= Len(arrays[q.stack]) - 1

\* i >= stack.length in next
AtEnd(q) == q.i >= Len(arrays[q.stack])

\* (mutant) md({ ...ctx }, next): the unit is given the locals of handle
UnitCtxStale(q, out) == q.ctx

\* { ...ctx, locals: out } in next
UnitCtx(q, out) == [q.ctx EXCEPT !.locals = out]

\* (mutant) the stack is read from its end
StackItemReversed(stack, i) == stack[Len(stack) - i]

\* stack[i] in next (the arrays of the model begin at 1)
StackItem(stack, i) == stack[i + 1]

\* (mutant) stack[i]: the cursor stays where it is
AdvanceNot(i) == i

\* stack[i++]: the cursor of the handle call moves on by one
Advance(i) == i + 1

\* The closure `next` of Toad.handle.
next(q, out) ==
    LET stack == arrays[q.stack]
        q1 == [q EXCEPT !.log = Append(@, [ev |-> "next", by |-> Caller(q),
                                           out |-> out])]
    IN  IF AtEnd(q)
        THEN IF q.handler = Null
             THEN Deliver([q1 EXCEPT !.log = Append(@, [ev |-> "notFound"])],
                          NotFound)
             ELSE LET hctx == [request |-> q.ctx.request,
                               matchedRoute |-> q.handler.store.matchingRoute,
                               locals |-> out,
                               parameters |-> q.handler.params]
                      fn == q.handler.store.handler
                  IN  [q1 EXCEPT
                         !.frames = Append(@, [kind |-> "handler", fn |-> fn,
                                               idx |-> Len(stack), pc |-> "start",
                                               ctx |-> hctx, newCtx |-> Null,
                                               resp |-> Null, calls |-> 0]),
                         !.log = Append(@, [ev |-> "handler", fn |-> fn,
                                            ctx |-> hctx])]
        ELSE LET md == StackItem(stack, q.i)
                 mctx == UnitCtx(q, out)
             IN  [q1 EXCEPT
                    !.i = Advance(@),
                    !.frames = Append(@, [kind |-> "middleware", fn |-> md,
                                          idx |-> q.i, pc |-> "start",
                                          ctx |-> mctx, newCtx |-> Null,
                                          resp |-> Null, calls |-> 0]),
                    !.log = Append(@, [ev |-> "middleware", idx |-> q.i,
                                       fn |-> md, ctx |-> mctx])]

\* null where a path may stand: a string that is no path
NullRoute == <<"null">>

\* (mutant) the context of the units never names the route
MatchedRouteNull(handler) == NullRoute

\* handler?.store.matchingRoute ?? null
MatchedRoute(handler) ==
    IF handler # Null THEN handler.store.matchingRoute ELSE NullRoute

\* (mutant) the Route Entries are looked up whatever the method
RouteMethodAny(request) == "GET"

\* this.#router.find(request.method, path)
RouteMethod(request) == request.method

\* (mutant) the Stack Entries are looked up under the method of the request
StackMethodOfRequest(request) == request.method

\* this.#stackRouter.find("GET", path): the method is not relevant
StackMethod(request) == "GET"

\* Toad.handle, up to the first unit it invokes.
handle(t, request) ==
    LET path == normalizePath(UrlPath(request.url))
        handler == MemoFind(Routes(t), RouteMethod(request), path)
        stackHandler == MemoFind(StackEntries(t), StackMethod(request), path)
        stack == IF handler # Null THEN handler.store.stack
                 ELSE IF stackHandler # Null THEN stackHandler.store.stack
                 ELSE Null
        ctx == [request |-> request,
                matchedRoute |-> MatchedRoute(handler),
                locals |-> EmptyLocals]
        q == [st |-> "run", request |-> request, handler |-> handler,
              stack |-> stack, ctx |-> ctx, i |-> 0, frames |-> <<>>,
              log |-> <<>>, result |-> Null]
    IN  IF stack = Null
        THEN [q EXCEPT !.st = "done",
                       !.result = [throw |-> "No stack handler found"]]
        ELSE next(q, EmptyLocals)

\* The frame on top calls next(out) and waits for what it returns.
CallNext(q, out) ==
    next([q EXCEPT !.frames[Len(q.frames)].pc = "called",
                   !.frames[Len(q.frames)].calls = @ + 1],
         out)

\* The frame on top returns v to its caller.
Return(q, v) ==
    Deliver(Pop([q EXCEPT !.log = Append(@, [ev |-> "return",
                                             idx |-> Top(q).idx,
                                             resp |-> v])]),
            v)

\* (mutant) { ...o, ...ctx.locals }: the incoming value of a key is kept
MergeLocalsFirstWins(locals, o) == Spread(o, locals)

\* The frame on top throws v: nothing of it runs any more.
Throw(q, v) ==
    Deliver(Pop([q EXCEPT !.log = Append(@, [ev |-> "throw",
                                             idx |-> Top(q).idx,
                                             resp |-> v])]),
            v)

\* return await next(...): the response is returned, a failure thrown on
Settle(q, v) == IF IsFailure(v) THEN Throw(q, v) ELSE Return(q, v)

\* { ...ctx.locals, ...o } in createMiddleware
MergeLocals(locals, o) == Spread(locals, o)

\* What the after callbacks of the model return: a response of their own.
AfterValue(md) == [status |-> 500, body |-> [message |-> "after"], by |-> md]

\* (mutant) return (await after(newCtx, resp)) ?? resp
ReturnedAfterValue(f) ==
    IF Unit(f.fn).after THEN AfterValue(f.fn) ELSE f.resp

\* await after(newCtx, resp); return resp in createMiddleware: what after
\* returned is not used
ReturnedResponse(f) == f.resp

\* The unit returned by createMiddleware, between two suspensions.
StepCreateMiddleware(q) ==
    LET f == Top(q)
        u == Unit(f.fn)
    IN  IF f.pc = "start" /\ f.fn \in Failing
        THEN Throw(q, Failure(f.fn))
        ELSE IF f.pc = "start"
        THEN LET o == u.out
                 newCtx == [f.ctx EXCEPT !.locals = MergeLocals(f.ctx.locals, o)]
             IN  CallNext([q EXCEPT !.frames[Len(q.frames)].newCtx = newCtx,
                                    !.log = Append(@, [ev |-> "before",
                                                       idx |-> f.idx,
                                                       fn |-> f.fn,
                                                       ctx |-> f.ctx])],
                          newCtx.locals)
        ELSE IF IsFailure(f.resp)
        THEN Throw(q, f.resp)
        ELSE LET q1 == IF u.after
                       THEN [q EXCEPT !.log = Append(@,
                                [ev |-> "after", idx |-> f.idx, fn |-> f.fn,
                                 ctx |-> f.newCtx, resp |-> f.resp,
                                 ret |-> AfterValue(f.fn)])]
                       ELSE q
             IN  Return(q1, ReturnedResponse(f))

\* A hand-written unit, between two suspensions.
StepRawMiddleware(q) ==
    LET f == Top(q)
        u == Unit(f.fn)
    IN  CASE u.flow = "short" -> Return(q, OwnResponse(f.fn))
          [] u.flow = "spread" ->
                IF f.pc = "start"
                THEN CallNext(q, Spread(f.ctx.locals, u.out))
                ELSE Settle(q, f.resp)
          [] u.flow = "replace" ->
                IF f.pc = "start" THEN CallNext(q, u.out)
                ELSE Settle(q, f.resp)
          [] u.flow = "wrap" ->
                IF f.pc = "start" THEN CallNext(q, f.ctx.locals)
                ELSE IF IsFailure(f.resp) THEN Throw(q, f.resp)
                ELSE Return(q, WrapResponse(f.fn, f.resp))
          [] u.flow = "twice" ->
                IF IsFailure(f.resp) THEN Throw(q, f.resp)
                ELSE IF f.calls < 2 THEN CallNext(q, f.ctx.locals)
                ELSE Return(q, f.resp)
          [] u.flow = "fail" -> Throw(q, Failure(f.fn))
          [] u.flow = "catch" ->
                IF f.pc = "start" THEN CallNext(q, f.ctx.locals)
                ELSE IF IsFailure(f.resp) THEN Return(q, OwnResponse(f.fn))
                ELSE Return(q, f.resp)

\* The handler of the resolved Route Entry.
StepHandler(q) ==
    LET f == Top(q)
    IN  IF f.fn \in Failing THEN Throw(q, Failure(f.fn))
        ELSE Return(q, HandlerResponse(f.fn, f.ctx))

\* The frame on top runs until it calls next or returns.
StepUnit(q) ==
    LET f == Top(q)
    IN  IF f.kind = "handler" THEN StepHandler(q)
        ELSE IF Unit(f.fn).flow = "createMiddleware"
        THEN StepCreateMiddleware(q)
        ELSE StepRawMiddleware(q)

RECURSIVE RunToEnd(_)
RunToEnd(q) == IF q.st = "done" THEN q ELSE RunToEnd(StepUnit(q))

-----------------------------------------------------------------------------
(* The registration model: a mount tree is built by use, verb and route    *)
(* calls on any of its routers, and the root serves requests in between.   *)
(* The router does not look into the units it is given, so every use call  *)
(* registers a unit that was not registered before; a request is served    *)
(* to its end before the next call.                                        *)

UsedUnits == UNION {{arrays[id][k] : k \in 1..Len(arrays[id])} : id \in DOMAIN arrays}

RegUse(maxUses) ==
    \E t \in DOMAIN toads :
        /\ ~Serving
        /\ Cardinality(UsedUnits) < maxUses
        /\ Cardinality(UsedUnits) < Len(RegUnits)
        /\ use(t, RegUnits[Cardinality(UsedUnits) + 1])

RegVerb(methods, paths, maxRoutes) ==
    \E t \in DOMAIN toads, m \in methods, p \in paths, fn \in Handlers :
        /\ ~Serving
        /\ Cardinality(Routes(t)) < maxRoutes
        /\ verb(t, m, p, fn)

RegMount(parents, maxToads) ==
    \E t \in parents, p \in MountPaths :
        /\ ~Serving
        /\ Len(toads) < maxToads
        /\ route(t, p)

RegServe(methods, paths) ==
    \E m \in methods, p \in paths :
        /\ ~Serving
        /\ rq' = [rq EXCEPT ![1] =
                     RunToEnd(handle(1, [method |-> m, url |-> RequestUrl(p)]))]
        /\ UNCHANGED <<toads, arrays, router, stackRouter>>

Release ==
    \E s \in Slots :
        /\ rq[s].st = "done"
        /\ rq' = [rq EXCEPT ![s] = Idle]
        /\ UNCHANGED <<toads, arrays, router, stackRouter>>

\* A router and one sub-router, every kind of call, GET routes, GET and
\* POST requests.
Use == RegUse(MaxUses)

Verb == RegVerb(RouteMethods, RoutePaths, MaxRoutes)

Mount == RegMount(DOMAIN toads, MaxToads)

Serve == RegServe(Methods, ReqPaths)

Next == Use \/ Verb \/ Mount \/ Serve \/ Release

Spec == Init /\ [][Next]_vars

\* Nested sub-routers, each mounted on the router made last, with GET
\* routes at "/x".
TreeUse == RegUse(MaxTreeUses)

TreeVerb == RegVerb(TreeMethods, TreeRoutePaths, MaxTreeRoutes)

TreeMount == RegMount({Len(toads)}, MaxTreeToads)

TreeServe == RegServe(TreeMethods, TreeReqPaths)

NextTree == TreeUse \/ TreeVerb \/ TreeMount \/ TreeServe \/ Release

SpecTree == Init /\ [][NextTree]_vars

-----------------------------------------------------------------------------
(* The chain model: one router, any units in its array, one route at "/",  *)
(* and a request that is served step by step.                              *)

ChainUse ==
    \E md \in ChainUnits :
        /\ ~Serving
        /\ Len(arrays[toads[1].stack]) < MaxChain
        /\ use(1, md)

ChainVerb ==
    \E fn \in Handlers :
        /\ ~Serving
        /\ Routes(1) = {}
        /\ verb(1, "GET", <<"/">>, fn)

Handle ==
    \E p \in ChainReqPaths :
        /\ ~Serving
        /\ rq' = [rq EXCEPT ![1] =
                     handle(1, [method |-> "GET", url |-> RequestUrl(p)])]
        /\ UNCHANGED <<toads, arrays, router, stackRouter>>

Step ==
    \E s \in Slots :
        /\ rq[s].st = "run"
        /\ rq' = [rq EXCEPT ![s] = StepUnit(rq[s])]
        /\ UNCHANGED <<toads, arrays, router, stackRouter>>

NextChain == ChainUse \/ ChainVerb \/ Handle \/ Step \/ Release

SpecChain == Init /\ [][NextChain]_vars

-----------------------------------------------------------------------------
(* What a request ran                                                      *)

Events(log, ev) == SelectSeq(log, LAMBDA e : e.ev = ev)

\* the units that were invoked, in the order of their invocation
MiddlewareRun(log) ==
    LET sel == Events(log, "middleware")
    IN  [k \in 1..Len(sel) |-> sel[k].fn]

Done(s) == rq[s].st = "done"

Routed(s) == Done(s) /\ rq[s].handler # Null

\* the Route Entries and the Stack Entries of the tree
RouteTable == router[toads[1].router]

StackTable == stackRouter[toads[1].stackRouter]

-----------------------------------------------------------------------------
(* Properties                                                              *)

\* a served request that resolved to a route ran the array of its entry
RunsRouteStack ==
    Routed(1) =>
        /\ \E e \in RouteTable : e.store = rq[1].handler.store
        /\ MiddlewareRun(rq[1].log) = arrays[rq[1].handler.store.stack]

\* C1: a Route Entry's middleware are those of the registering router's
\* list at the moment of the registration: the entry that a verb call adds
\* holds the elements the list of a router had before the call, no later
\* call changes the entry or the elements it holds, and a request that
\* resolves to the entry runs exactly these, in order.
C1_RouteRunsRegistrationStack ==
    [][ /\ \A e \in RouteTable' \ RouteTable :
              \E t \in DOMAIN toads, p \in RoutePaths \cup TreeRoutePaths :
                  /\ e.store.matchingRoute = toads[t].basePath \o p
                  /\ arrays'[e.store.stack] = arrays[toads[t].stack]
        /\ \A e \in RouteTable :
              /\ e \in RouteTable'
              /\ arrays'[e.store.stack] = arrays[e.store.stack]
        /\ RunsRouteStack' ]_vars

\* use(A), get("/x"), use(B), GET //x/: A was run and B was not
C1_Witness ==
    /\ Routed(1)
    /\ rq[1].handler.store.matchingRoute = <<"/", "x">>
    /\ MiddlewareRun(rq[1].log) = <<"mA">>
    /\ arrays[toads[1].stack] = <<"mA", "mB">>

\* C2: the sub-router that route creates starts with the elements of its
\* parent's list, and from then on a call changes the list of at most one
\* router of the tree: a use on the parent leaves the list of the sub-router
\* as it is, and a use on the sub-router that of the parent.
C2_MountCopiesStack ==
    [][ /\ Len(toads') > Len(toads) =>
              LET sub == toads'[Len(toads')]
              IN  \E t \in DOMAIN toads, p \in MountPaths :
                      /\ sub.basePath = toads[t].basePath \o p
                      /\ arrays'[sub.stack] = arrays[toads[t].stack]
        /\ \A t, u \in DOMAIN toads :
              (t # u /\ arrays'[toads'[t].stack] # arrays[toads[t].stack])
                  => arrays'[toads'[u].stack] = arrays[toads[u].stack] ]_vars

\* use(A), route("/a", sub), sub.use(B), use(C), sub.get("/x"), GET /a//x/:
\* A and B were run, C was not
C2_Witness ==
    /\ Routed(1)
    /\ Len(toads) = 2
    /\ arrays[toads[1].stack] = <<"mA", "mC">>
    /\ arrays[toads[2].stack] = <<"mA", "mB">>
    /\ rq[1].handler.store.matchingRoute = <<"/", "a", "/", "x">>
    /\ MiddlewareRun(rq[1].log) = <<"mA", "mB">>

-----------------------------------------------------------------------------
(* The chain of one request, read from its log                             *)

InFlight(s) == rq[s].st # "idle"

StackOf(s) == arrays[rq[s].stack]

\* positions of the log where a unit, or the handler, was invoked
Invoked(log) == {p \in DOMAIN log : log[p].ev = "middleware"}

Invocations(log) == {p \in DOMAIN log : log[p].ev \in {"middleware", "handler"}}

\* the stack index of the invoked unit; the handler comes after the stack
IdxAt(log, p, n) == IF log[p].ev = "handler" THEN n ELSE log[p].idx

\* calls of next made by the unit at index k
NextCalls(log, k) == {p \in DOMAIN log : log[p].ev = "next" /\ log[p].by = k}

Returns(log, k) == {p \in DOMAIN log : log[p].ev = "return" /\ log[p].idx = k}

Resumes(log, k) == {p \in DOMAIN log : log[p].ev = "resumed" /\ log[p].idx = k}

Max(S) == CHOOSE x \in S : \A y \in S : y <= x

\* the unit at index k returned and never called next
ShortCircuited(log, k) == Returns(log, k) # {} /\ NextCalls(log, k) = {}

\* the unit at index k has called next at most once, and what it returned
\* is the response that call yielded
PassesThrough(log, k) ==
    /\ Cardinality(NextCalls(log, k)) <= 1
    /\ \A p \in Returns(log, k) :
          /\ Resumes(log, k) # {}
          /\ log[p].resp = log[Max(Resumes(log, k))].resp

\* units are invoked in the order of the stack, and the handler or the 404
\* comes after all of them
InStackOrder(log, stack) ==
    /\ \A p \in Invoked(log) :
          LET k == Cardinality({r \in Invoked(log) : r < p})
          IN  /\ log[p].idx = k
              /\ k < Len(stack)
              /\ log[p].fn = stack[k + 1]
    /\ \A p \in DOMAIN log :
          log[p].ev \in {"handler", "notFound"}
              => Cardinality({r \in Invoked(log) : r < p}) = Len(stack)

\* nothing after index k was invoked, and the response of k is the result
StopsAt(s, k) ==
    LET log == rq[s].log
    IN  /\ \A p \in Invocations(log) : IdxAt(log, p, Len(StackOf(s))) <= k
        /\ Done(s) => rq[s].result = log[Max(Returns(log, k))].resp

\* C3 as stated: whenever a unit returns without calling next, nothing
\* after it is invoked and its response is the result of handle.
C3_ShortCircuitAlwaysFinal ==
    InFlight(1) =>
        /\ InStackOrder(rq[1].log, StackOf(1))
        /\ \A k \in 0..(Len(StackOf(1)) - 1) :
              ShortCircuited(rq[1].log, k) => StopsAt(1, k)

\* C3 (amended): the units of the resolved stack are invoked in the order
\* of the stack, index 0, 1, 2, ..., and the handler or the 404 only after
\* all of them; when a unit returns without calling next, and every unit
\* before it calls next once and returns the response that call yields,
\* then no later unit and no handler is invoked and the response of that
\* unit is the result of handle.
C3_ShortCircuit ==
    InFlight(1) =>
        /\ InStackOrder(rq[1].log, StackOf(1))
        /\ \A k \in 0..(Len(StackOf(1)) - 1) :
              (/\ ShortCircuited(rq[1].log, k)
               /\ \A j \in 0..(k - 1) : PassesThrough(rq[1].log, j))
                  => StopsAt(1, k)

\* a unit between two others answered by itself a request that has a route
C3_Witness ==
    /\ Routed(1)
    /\ Len(StackOf(1)) = 3
    /\ ShortCircuited(rq[1].log, 1)
    /\ PassesThrough(rq[1].log, 0)
    /\ rq[1].result = OwnResponse(StackOf(1)[2])

\* the locals an invocation was given
SeenAt(log, p) == log[p].ctx.locals

\* calls of next made by the units between index i and index j
CallsBetween(log, i, j) ==
    {c \in DOMAIN log : log[c].ev = "next" /\ i < log[c].by /\ log[c].by < j}

\* the keys a unit passed to next are in the locals of every later unit and
\* of the handler, with the value passed unless a unit in between passed
\* another one
LocalsGrow(s) ==
    LET log == rq[s].log
        n == Len(StackOf(s))
    IN  \A c \in DOMAIN log, r \in Invocations(log) :
            (log[c].ev = "next" /\ 0 <= log[c].by
                                /\ log[c].by < IdxAt(log, r, n))
                => \A key \in DOMAIN log[c].out :
                      /\ key \in DOMAIN SeenAt(log, r)
                      /\ SeenAt(log, r)[key] # log[c].out[key] =>
                            \E m \in CallsBetween(log, log[c].by,
                                                  IdxAt(log, r, n)) :
                                /\ key \in DOMAIN log[m].out
                                /\ log[m].out[key] # log[c].out[key]

\* every unit calls next at most once, with locals that have the keys it
\* was given
UnitsMerge(s) ==
    LET log == rq[s].log
    IN  \A p \in Invoked(log) :
            /\ Cardinality(NextCalls(log, log[p].idx)) <= 1
            /\ \A c \in NextCalls(log, log[p].idx) :
                  DOMAIN SeenAt(log, p) \subseteq DOMAIN log[c].out

\* C4 as stated: for any stack of units the locals grow along the chain.
C4_LocalsGrowAnyStack == InFlight(1) => LocalsGrow(1)

\* C4 (amended): when every unit of the chain calls next at most once and
\* passes on the keys it was given (as the units built by createMiddleware
\* do, which pass their locals merged with the new ones), a key that a unit
\* passed to next is in the locals of every later unit and of the handler,
\* with the same value unless a unit in between passed another one.  The
\* runner does not merge: it hands on the value next was given.
C4_LocalsGrow == (InFlight(1) /\ UnitsMerge(1)) => LocalsGrow(1)

\* mA, mB, mA2 and the handler: a was set, b was added, a was overwritten
C4_Witness ==
    /\ Routed(1)
    /\ MiddlewareRun(rq[1].log) = <<"mA", "mB", "mA2">>
    /\ \E p \in Invocations(rq[1].log) :
          /\ rq[1].log[p].ev = "handler"
          /\ SeenAt(rq[1].log, p) = [a |-> "9", b |-> "2"]

-----------------------------------------------------------------------------
(* Paths, read segment by segment                                          *)

\* the position of the first slash of p, Len(p) + 1 when p has none
FirstSlash(p) ==
    IF \E i \in DOMAIN p : p[i] = "/"
    THEN CHOOSE i \in DOMAIN p : p[i] = "/" /\ \A j \in 1..(i - 1) : p[j] # "/"
    ELSE Len(p) + 1

\* the segments of a path: what stands between its slashes
RECURSIVE Segments(_)
Segments(p) ==
    IF p = <<>> THEN <<>>
    ELSE IF Head(p) = "/" THEN Segments(Tail(p))
    ELSE <<SubSeq(p, 1, FirstSlash(p) - 1)>>
             \o Segments(SubSeq(p, FirstSlash(p), Len(p)))

\* two spellings of a path that differ in nothing but doubled slashes and
\* slashes at the end
SameButSlashes(p, r) == Segments(p) = Segments(r)

\* the pathname of the URL of a request
Pathname(request) == SubSeq(request.url, Len(Origin) + 1, Len(request.url))

\* the path of the request falls under the base path of router t
UnderBase(t, request) ==
    IsPrefix(Segments(toads[t].basePath), Segments(Pathname(request)))

\* the routers with the longest base path the request falls under
Nearest(request) ==
    {t \in DOMAIN toads :
        /\ UnderBase(t, request)
        /\ \A u \in DOMAIN toads :
              UnderBase(u, request)
                  => Len(Segments(toads[u].basePath))
                         <= Len(Segments(toads[t].basePath))}

\* the router whose Stack Entry the request matches: of the nearest routers
\* the one that was constructed first
Owner(request) == CHOOSE t \in Nearest(request) : \A u \in Nearest(request) : t <= u

\* a served request that resolved to no route
Unrouted(s) == Done(s) /\ rq[s].handler = Null

\* C5: a request that matches no route, served to its end by units that
\* all call next, has run the list of a router with the longest base path
\* its path falls under, in order, was answered 404 with the body
\* {message: "Not found"}, and no handler was invoked and no error thrown.
C5_UnmatchedRouteIs404 ==
    Unrouted(1) =>
        /\ \E t \in Nearest(rq[1].request) :
              MiddlewareRun(rq[1].log) = arrays[toads[t].stack]
        /\ InStackOrder(rq[1].log, StackOf(1))
        /\ Events(rq[1].log, "handler") = <<>>
        /\ DOMAIN rq[1].result = {"status", "body", "by"}
        /\ rq[1].result.status = 404
        /\ rq[1].result.body = [message |-> "Not found"]

\* POST /a//x/ with no route for it ran the two units of the sub-router
C5_Witness ==
    /\ Unrouted(1)
    /\ rq[1].request.method = "POST"
    /\ Pathname(rq[1].request) = <<"/", "a", "/", "/", "x", "/">>
    /\ Nearest(rq[1].request) = {2}
    /\ Len(MiddlewareRun(rq[1].log)) = 2
    /\ rq[1].result.status = 404

\* C6: a request with the method of a Route Entry and a spelling of its
\* registered path that differs only in doubled slashes or a slash at the
\* end resolves to this entry: its handler is the one that is invoked, and
\* the units and the handler are given the path as it was registered as
\* matchedRoute, whatever the spelling of the request.
C6_SlashSpellingsReachRoute ==
    \A e \in RouteTable :
        (/\ Done(1)
         /\ rq[1].request.method = e.method
         /\ SameButSlashes(Pathname(rq[1].request), e.store.matchingRoute))
            => /\ rq[1].handler # Null
               /\ rq[1].handler.store = e.store
               /\ \A p \in Invocations(rq[1].log) :
                     rq[1].log[p].ctx.matchedRoute = e.store.matchingRoute
               /\ \E p \in Invocations(rq[1].log) :
                     /\ rq[1].log[p].ev = "handler"
                     /\ rq[1].log[p].fn = e.store.handler

\* sub.get("/x") under "/a", GET /a//x/: the handler was given "/a/x"
C6_Witness ==
    /\ Routed(1)
    /\ Pathname(rq[1].request) = <<"/", "a", "/", "/", "x", "/">>
    /\ rq[1].handler.store.matchingRoute = <<"/", "a", "/", "x">>
    /\ \E p \in Invocations(rq[1].log) :
          /\ rq[1].log[p].ev = "handler"
          /\ rq[1].log[p].ctx.matchedRoute = <<"/", "a", "/", "x">>

\* C7: a request that resolves to no route runs the list of the router
\* whose Stack Entry it matches as the list is when the request is served,
\* with the units added after the router was made and after its routes
\* were registered.
C7_FallbackStackIsLive ==
    Unrouted(1) =>
        MiddlewareRun(rq[1].log) = arrays[toads[Owner(rq[1].request)].stack]

\* use(A), get("/x"), use(B), GET /: A and B were run, the route holds A
C7_Witness ==
    /\ Unrouted(1)
    /\ Pathname(rq[1].request) = <<"/">>
    /\ \E e \in RouteTable :
          /\ e.store.matchingRoute = <<"/", "x">>
          /\ arrays[e.store.stack] = <<"mA">>
    /\ MiddlewareRun(rq[1].log) = <<"mA", "mB">>
    /\ rq[1].result.status = 404

-----------------------------------------------------------------------------
(* The units built by createMiddleware                                     *)

\* positions of the log where a unit built by createMiddleware was invoked
FactoryInvoked(log) ==
    {p \in Invoked(log) : Unit(log[p].fn).flow = "createMiddleware"}

\* calls of the after callback of the unit at index k
Afters(log, k) == {p \in DOMAIN log : log[p].ev = "after" /\ log[p].idx = k}

\* the frames of the unit at index k that are past its before callback
PastBefore(s, k) ==
    {n \in DOMAIN rq[s].frames :
        rq[s].frames[n].idx = k /\ rq[s].frames[n].pc # "start"}

\* out is incoming with the keys of o set to the values of o
IsShallowMerge(out, incoming, o) ==
    /\ DOMAIN out = DOMAIN incoming \cup DOMAIN o
    /\ \A key \in DOMAIN o : out[key] = o[key]
    /\ \A key \in DOMAIN incoming \ DOMAIN o : out[key] = incoming[key]

\* the unit invoked at position p of the log has called next once, with the
\* merged locals, since its before callback returned
CallsNextOnce(s, p) ==
    LET log == rq[s].log
        k == log[p].idx
    IN  /\ Cardinality(NextCalls(log, k)) <= 1
        /\ (PastBefore(s, k) # {} \/ Returns(log, k) # {})
              => Cardinality(NextCalls(log, k)) = 1

\* after is called when the response of next is there, with the context of
\* the unit but for the merged locals, and with this response
AfterSeesResponse(s, p) ==
    LET log == rq[s].log
        k == log[p].idx
    IN  /\ Cardinality(Afters(log, k)) <= 1
        /\ \A a \in Afters(log, k) :
              /\ Unit(log[p].fn).after
              /\ \E c \in NextCalls(log, k), r \in Resumes(log, k) :
                    /\ c < r /\ r < a
                    /\ log[a].resp = log[r].resp
                    /\ log[a].ctx.request = log[p].ctx.request
                    /\ log[a].ctx.matchedRoute = log[p].ctx.matchedRoute
                    /\ log[a].ctx.locals = log[c].out
                    /\ IsShallowMerge(log[a].ctx.locals, log[p].ctx.locals,
                                      Unit(log[p].fn).out)

\* the unit returns what its call of next returned, after its after
\* callback, if it has one, was called
ReturnsResponseOfNext(s, p) ==
    LET log == rq[s].log
        k == log[p].idx
    IN  /\ Cardinality(Returns(log, k)) <= 1
        /\ \A z \in Returns(log, k) :
              /\ \E r \in Resumes(log, k) :
                    /\ r < z
                    /\ log[z].resp = log[r].resp
              /\ Unit(log[p].fn).after => \E a \in Afters(log, k) : a < z

\* C8: a unit built by createMiddleware calls next exactly once when its
\* before callback has returned; its after callback is called only once
\* next has returned, with the context that carries the merged locals and
\* the response next returned; and the unit returns this very response,
\* not what after returned.
C8_FactoryUnitPassesResponse ==
    InFlight(1) =>
        \A p \in FactoryInvoked(rq[1].log) :
            /\ CallsNextOnce(1, p)
            /\ AfterSeesResponse(1, p)
            /\ ReturnsResponseOfNext(1, p)

\* mB before rWrap: after of mB was given the response rWrap made, with
\* locals {b: 2}, and this response is the result
C8_Witness ==
    /\ Routed(1)
    /\ StackOf(1) = <<"mB", "rWrap">>
    /\ \E a \in Afters(rq[1].log, 0) :
          /\ rq[1].log[a].resp.by = "rWrap"
          /\ rq[1].log[a].ctx.locals = [b |-> "2"]
          /\ rq[1].log[a].ret # rq[1].result
    /\ rq[1].result.by = "rWrap"

\* the context a unit was invoked with is the one its frame still holds
CtxUntouched(s) ==
    \A n \in DOMAIN rq[s].frames :
        \E p \in Invocations(rq[s].log) :
            /\ IdxAt(rq[s].log, p, Len(StackOf(s))) = rq[s].frames[n].idx
            /\ rq[s].log[p].ctx = rq[s].frames[n].ctx

\* C9: the locals a unit built by createMiddleware passes to next are the
\* locals it was invoked with, with the keys that before returned set to
\* the values before returned, also for the keys the unit was invoked
\* with; the context the unit was invoked with stays as it was.
C9_ShallowMergeLastWins ==
    InFlight(1) =>
        /\ \A p \in FactoryInvoked(rq[1].log) :
              \A c \in NextCalls(rq[1].log, rq[1].log[p].idx) :
                  IsShallowMerge(rq[1].log[c].out, rq[1].log[p].ctx.locals,
                                 Unit(rq[1].log[p].fn).out)
        /\ CtxUntouched(1)

\* mA, mB, mA2: mA2 was given {a: 1, b: 2} and passed {a: 9, b: 2}
C9_Witness ==
    /\ InFlight(1)
    /\ \E p \in FactoryInvoked(rq[1].log) :
          /\ rq[1].log[p].fn = "mA2"
          /\ rq[1].log[p].ctx.locals = [a |-> "1", b |-> "2"]
          /\ \E c \in NextCalls(rq[1].log, rq[1].log[p].idx) :
                rq[1].log[c].out = [a |-> "9", b |-> "2"]
          /\ \E n \in DOMAIN rq[1].frames :
                /\ rq[1].frames[n].fn = "mA2"
                /\ rq[1].frames[n].pc = "resumed"
                /\ rq[1].frames[n].ctx.locals = [a |-> "1", b |-> "2"]

-----------------------------------------------------------------------------
(* The mount tree                                                          *)

\* the Route Entries of all the routers of the tree
AllRoutes == UNION {Routes(t) : t \in DOMAIN toads}

\* what before callbacks of the units of a stack add up to
RECURSIVE Accumulated(_)
Accumulated(stack) ==
    IF stack = <<>> THEN EmptyLocals
    ELSE Spread(Accumulated(Front(stack)), Unit(Last(stack)).out)

\* handle on the root, for the method and the path of a Route Entry
Dispatch(e) ==
    RunToEnd(handle(1, [method |-> e.method, url |-> RequestUrl(e.path)]))

\* C10: a Route Entry registered on any router of the tree, at path q
\* under the base path p of this router, is reached by handle on the root
\* for normalize(p + q): its handler answers, after the units its stack
\* holds (those the router had inherited and added when the route was
\* registered), with the locals these add up to.
C10_OneRouteTable ==
    \A e \in AllRoutes :
        /\ \E t \in DOMAIN toads, q \in RoutePaths \cup TreeRoutePaths :
              /\ e.store.matchingRoute = toads[t].basePath \o q
              /\ e.path = normalizePath(toads[t].basePath \o q)
        /\ LET q == Dispatch(e)
           IN  /\ q.handler # Null
               /\ q.handler.store = e.store
               /\ MiddlewareRun(q.log) = arrays[e.store.stack]
               /\ q.result.by = e.store.handler
               /\ q.result.body = Accumulated(arrays[e.store.stack])

\* use(A), route("/a"): use(B), route("/a"): use(C), get("/x"); the root
\* answers GET /a/a/x with {a: 1, b: 2, c: 3}
C10_Witness ==
    /\ Routed(1)
    /\ Len(toads) = 3
    /\ arrays[toads[1].stack] = <<"mA">>
    /\ arrays[toads[2].stack] = <<"mA", "mB">>
    /\ arrays[toads[3].stack] = <<"mA", "mB", "mC">>
    /\ rq[1].handler.store.matchingRoute = <<"/", "a", "/", "a", "/", "x">>
    /\ rq[1].result.body = [a |-> "1", b |-> "2", c |-> "3"]

-----------------------------------------------------------------------------
(* The pair model: one router with a route at "/", and two handle calls    *)
(* in flight, each suspended where a unit awaits next or is about to       *)
(* return, resumed in any order.                                           *)

PairUnits == {"mA", "mB", "rShort", "rWrap"}

\* pathnames of the requests: "" has the route, "/x" has none
PairReqPaths == { <<>>, <<"/", "x">> }

PairUse ==
    \E md \in PairUnits :
        /\ ~Serving
        /\ Len(arrays[toads[1].stack]) < MaxPair
        /\ use(1, md)

\* (mutant) a cursor kept by the router: every call of handle in flight
\* reads the position the furthest of them has reached
CursorShared(s) ==
    Max({rq[r].i : r \in {r \in Slots : rq[r].st = "run"}})

\* let i = 0 in handle: the cursor belongs to the call
Cursor(s) == rq[s].i

\* a second call of handle may begin while the first is suspended
PairHandle ==
    \E s \in Slots, p \in PairReqPaths :
        /\ rq[s].st = "idle"
        /\ \A r \in Slots : r < s => rq[r].st # "idle"
        /\ rq' = [rq EXCEPT ![s] =
                     handle(1, [method |-> "GET", url |-> RequestUrl(p)])]
        /\ UNCHANGED <<toads, arrays, router, stackRouter>>

\* one of the calls in flight runs to its next suspension
PairStep ==
    \E s \in Slots :
        /\ rq[s].st = "run"
        /\ rq' = [rq EXCEPT ![s] = StepUnit([rq[s] EXCEPT !.i = Cursor(s)])]
        /\ UNCHANGED <<toads, arrays, router, stackRouter>>

\* both responses were taken
PairRelease ==
    /\ \A s \in Slots : rq[s].st = "done"
    /\ rq' = [s \in Slots |-> Idle]
    /\ UNCHANGED <<toads, arrays, router, stackRouter>>

NextPair == PairUse \/ ChainVerb \/ PairHandle \/ PairStep \/ PairRelease

SpecPair == Init /\ [][NextPair]_vars

\* the request of slot s, served with no other call in flight
Alone(s) == RunToEnd(handle(1, rq[s].request))

\* what slot s has done so far is what it does when served alone
AsAlone(s) ==
    /\ Len(rq[s].log) <= Len(Alone(s).log)
    /\ rq[s].log = SubSeq(Alone(s).log, 1, Len(rq[s].log))
    /\ Done(s) => /\ rq[s].log = Alone(s).log
                  /\ rq[s].result = Alone(s).result

\* C11: with two calls of handle in flight on a router, resumed in any
\* order and with no registration meanwhile, each invokes the units it
\* invokes when served alone, in the same order, with the same locals, and
\* yields the same response: its cursor and context are its own.
C11_RequestsDoNotInterfere ==
    \A s \in Slots : InFlight(s) => AsAlone(s)

\* a routed and an unrouted request, both begun before either had ended,
\* the second one finished first
C11_Witness ==
    /\ rq[1].st = "run"
    /\ rq[1].i = 1
    /\ rq[1].handler # Null
    /\ Done(2)
    /\ rq[2].handler = Null
    /\ Len(StackOf(2)) = 2
    /\ MiddlewareRun(rq[2].log) = StackOf(2)
    /\ rq[2].result.status = 404

-----------------------------------------------------------------------------
(* The resolve phase                                                       *)

\* pathnames to resolve: those of the requests, and "/ax", "/a/x/x", "/x/a"
ProbePaths == ReqPaths \cup TreeReqPaths \cup
              { <<"/", "a", "x">>, <<"/", "a", "/", "x", "/", "x">>,
                <<"/", "x", "/", "a">> }

\* handle on router t finds a stack for the request
FindsStack(t, request) ==
    LET q == handle(t, request)
    IN  /\ q.stack # Null
        /\ q.stack \in DOMAIN arrays
        /\ q.result # [throw |-> "No stack handler found"]

\* C12: whatever use, verb and route calls were made on the tree, handle
\* finds a stack, of a Route Entry or of a Stack Entry, for every method
\* and every path, on every router of the tree (resolved between the calls,
\* when a request can be made): it never fails with "No stack handler
\* found", and no served request has.
C12_StackAlwaysFound ==
    /\ ~Serving =>
          \A t \in DOMAIN toads, m \in Methods, p \in ProbePaths :
              FindsStack(t, [method |-> m, url |-> RequestUrl(p)])
    /\ \A s \in Slots : Done(s) => DOMAIN rq[s].result # {"throw"}

\* a sub-router at "/a" and a route; POST //x/ is under neither and was
\* served with the list of the root
C12_Witness ==
    /\ Unrouted(1)
    /\ Len(toads) = 2
    /\ RouteTable # {}
    /\ rq[1].request.method = "POST"
    /\ Pathname(rq[1].request) = <<"/", "/", "x", "/">>
    /\ rq[1].stack = toads[1].stack
    /\ arrays[toads[1].stack] # arrays[toads[2].stack]
    /\ rq[1].result.status = 404

-----------------------------------------------------------------------------
(* The continuation                                                        *)

\* the call of next at position c of the log went on to the successor of
\* the unit that made it: the unit after it, given the value passed, or the
\* handler or the 404 when it was the last unit of the stack
InvokesSuccessor(log, c, n) ==
    /\ c + 1 \in DOMAIN log
    /\ IF log[c].by + 1 < n
       THEN /\ log[c + 1].ev = "middleware"
            /\ log[c + 1].idx = log[c].by + 1
            /\ log[c + 1].ctx.locals = log[c].out
       ELSE log[c + 1].ev \in {"handler", "notFound"}

\* C13 as stated: every call of next made by the unit at index i, the
\* first and any repeated one, invokes the unit at index i + 1 with the
\* locals it was passed, or the handler or the 404 after the last unit.
C13_NextInvokesSuccessor ==
    InFlight(1) =>
        \A c \in DOMAIN rq[1].log :
            rq[1].log[c].ev = "next"
                => InvokesSuccessor(rq[1].log, c, Len(StackOf(1)))

-----------------------------------------------------------------------------
(* The method of the request                                               *)

\* the Route Entries at the path of the request, whatever their method
RoutesAtPath(request) ==
    {e \in RouteTable : Segments(e.path) = Segments(Pathname(request))}

\* the path of the request has a route, but none for its method
WrongMethod(request) ==
    /\ RoutesAtPath(request) # {}
    /\ \A e \in RoutesAtPath(request) : e.method # request.method

\* C14: a request to the path of a Route Entry with a method that has no
\* route there does not reach the handler of the entry and does not run
\* the stack the entry holds: it runs the list of the router whose Stack
\* Entry matches the path, as the list is now, and is answered 404.
C14_RouteLookupByMethod ==
    (Done(1) /\ WrongMethod(rq[1].request)) =>
        /\ rq[1].handler = Null
        /\ Events(rq[1].log, "handler") = <<>>
        /\ \A e \in RoutesAtPath(rq[1].request) :
              rq[1].stack # e.store.stack
        /\ rq[1].stack = toads[Owner(rq[1].request)].stack
        /\ MiddlewareRun(rq[1].log) = arrays[rq[1].stack]
        /\ rq[1].result.status = 404
        /\ rq[1].result.body = [message |-> "Not found"]

\* use(A), get("/x"), use(B), POST //x/: A and B were run, not the A alone
\* of the GET route, and the answer was 404
C14_Witness ==
    /\ Done(1)
    /\ rq[1].request.method = "POST"
    /\ Pathname(rq[1].request) = <<"/", "/", "x", "/">>
    /\ \E e \in RoutesAtPath(rq[1].request) :
          /\ e.method = "GET"
          /\ arrays[e.store.stack] = <<"mA">>
    /\ MiddlewareRun(rq[1].log) = <<"mA", "mB">>
    /\ rq[1].result.status = 404

-----------------------------------------------------------------------------
(* The nest model: one router, units built by createMiddleware and one     *)
(* hand-written unit, one route at "/" or at "/*", and a request that is   *)
(* served step by step.                                                    *)

NestUnits == {"mA", "mB", "mC", "rReplace"}

NestRoutePaths == { <<"/">>, <<"/", "*">> }

NestUse ==
    \E md \in NestUnits :
        /\ ~Serving
        /\ Len(arrays[toads[1].stack]) < MaxNest
        /\ use(1, md)

NestVerb ==
    \E fn \in Handlers, p \in NestRoutePaths :
        /\ ~Serving
        /\ Routes(1) = {}
        /\ verb(1, "GET", p, fn)

NextNest == NestUse \/ NestVerb \/ Handle \/ Step \/ Release

SpecNest == Init /\ [][NextNest]_vars

\* the Route Entries a request resolves to: those of its method whose path
\* has its segments, or, with a "*" at the end, the first of its segments
Resolving(request) ==
    {e \in RouteTable :
        /\ e.method = request.method
        /\ IF IsWildcard(e.path)
           THEN IsPrefix(Segments(Front(e.path)), Segments(Pathname(request)))
           ELSE Segments(e.path) = Segments(Pathname(request))}

\* what the segments of the request bind in the path of the entry: the
\* "*" is bound to what follows the slash it stands after
Bindings(e, request) ==
    LET path == normalizePath(UrlPath(request.url))
    IN  IF IsWildcard(e.path)
        THEN [k \in {"*"} |-> SubSeq(path, Len(e.path), Len(path))]
        ELSE [k \in {} |-> <<>>]

\* the pattern every invocation of the request is to be given
PatternOf(request) ==
    IF Resolving(request) = {} THEN NullRoute
    ELSE (CHOOSE e \in Resolving(request) : TRUE).store.matchingRoute

\* the unit invoked at position p was given the request, the pattern, and
\* nothing but locals besides; the first unit was given empty locals
UnitSeesRequest(s, p) ==
    LET e == rq[s].log[p]
    IN  /\ DOMAIN e.ctx = {"request", "matchedRoute", "locals"}
        /\ e.ctx.request = rq[s].request
        /\ e.ctx.matchedRoute = PatternOf(rq[s].request)
        /\ e.idx = 0 => e.ctx.locals = EmptyLocals

\* the handler invoked at position p is that of the resolved entry, given
\* the request, the pattern, the locals of the call of next that invoked
\* it, and the bindings
HandlerSeesRoute(s, p) ==
    LET e == rq[s].log[p]
    IN  /\ Resolving(rq[s].request) # {}
        /\ \E r \in Resolving(rq[s].request) :
              /\ e.fn = r.store.handler
              /\ e.ctx.parameters = Bindings(r, rq[s].request)
        /\ e.ctx.request = rq[s].request
        /\ e.ctx.matchedRoute = PatternOf(rq[s].request)
        /\ e.ctx.matchedRoute # NullRoute
        /\ rq[s].log[p - 1].ev = "next"
        /\ e.ctx.locals = rq[s].log[p - 1].out

\* C15: in one dispatch every unit is given the same request and the same
\* matchedRoute, the registered path of the resolved Route Entry or null
\* when there is none, and the first unit empty locals; the handler is
\* invoked only when a Route Entry was resolved, with its registered path,
\* the locals passed to the call of next that invoked it, and the bindings
\* of the path.
C15_ContextIsFixed ==
    InFlight(1) =>
        \A p \in Invocations(rq[1].log) :
            IF rq[1].log[p].ev = "handler"
            THEN HandlerSeesRoute(1, p)
            ELSE UnitSeesRequest(1, p)

\* get("/*"), GET /x after mA and rReplace: the handler was given the
\* pattern "/*", the locals {r: 7} and the binding of "*" to "x", and the
\* units the pattern too
C15_Witness ==
    /\ Routed(1)
    /\ StackOf(1) = <<"mA", "rReplace">>
    /\ \E p \in Invocations(rq[1].log) :
          /\ rq[1].log[p].ev = "handler"
          /\ rq[1].log[p].ctx.matchedRoute = <<"/", "*">>
          /\ rq[1].log[p].ctx.locals = [r |-> "7"]
          /\ rq[1].log[p].ctx.parameters["*"] = <<"x">>
    /\ \A p \in Invoked(rq[1].log) :
          rq[1].log[p].ctx.matchedRoute = <<"/", "*">>

-----------------------------------------------------------------------------
(* before and after                                                        *)

Reverse(seq) == [k \in 1..Len(seq) |-> seq[Len(seq) + 1 - k]]

\* the units of a stack are all built by createMiddleware
AllFactory(stack) ==
    \A k \in DOMAIN stack : Unit(stack[k]).flow = "createMiddleware"

\* the units of a stack that have an after callback
WithAfter(stack) == SelectSeq(stack, LAMBDA md : Unit(md).after)

\* the units whose callbacks of one kind were called, in the order of the calls
Called(log, ev) ==
    [k \in 1..Len(Events(log, ev)) |-> Events(log, ev)[k].fn]

\* the before callbacks ran in the order of the stack, and all of them
\* before the handler
BeforesInOrder(log, stack) ==
    /\ Len(Called(log, "before")) <= Len(stack)
    /\ Called(log, "before") = SubSeq(stack, 1, Len(Called(log, "before")))
    /\ \A k \in 1..Len(Events(log, "before")) :
          Events(log, "before")[k].idx = k - 1
    /\ \A h \in DOMAIN log :
          log[h].ev = "handler"
              => /\ Len(Called(SubSeq(log, 1, h), "before")) = Len(stack)
                 /\ Len(Events(log, "handler")) = 1

\* the after callbacks ran after the handler had returned, each with the
\* response of the handler, in the reverse of the order of the stack
AftersInReverse(log, stack) ==
    /\ \A a \in DOMAIN log :
          log[a].ev = "after"
              => \E h \in 1..(a - 1) :
                    /\ log[h].ev = "return"
                    /\ log[h].idx = Len(stack)
                    /\ log[h].resp.by \in Handlers
                    /\ log[a].resp = log[h].resp
    /\ LET n == Len(Called(log, "after"))
       IN  /\ n <= Len(WithAfter(stack))
           /\ Called(log, "after") = SubSeq(Reverse(WithAfter(stack)), 1, n)

\* C17: for a routed request and a stack of units built by createMiddleware,
\* the before callbacks run in the order of the stack, then the handler,
\* then the after callbacks in the reverse order; no after callback runs
\* before the handler has returned, and each is given the response of the
\* handler, which is the result.
C17_BeforeHandlerAfterNested ==
    (InFlight(1) /\ rq[1].handler # Null /\ AllFactory(StackOf(1))) =>
        /\ BeforesInOrder(rq[1].log, StackOf(1))
        /\ AftersInReverse(rq[1].log, StackOf(1))
        /\ Done(1) =>
              /\ Called(rq[1].log, "before") = StackOf(1)
              /\ Called(rq[1].log, "after") = Reverse(WithAfter(StackOf(1)))
              /\ Len(Events(rq[1].log, "handler")) = 1
              /\ rq[1].result.by \in Handlers

\* mB, mA, mC: the before callbacks of mB, mA, mC, the handler, the
\* after callbacks of mC and mB
C17_Witness ==
    /\ Routed(1)
    /\ StackOf(1) = <<"mB", "mA", "mC">>
    /\ Called(rq[1].log, "before") = <<"mB", "mA", "mC">>
    /\ Called(rq[1].log, "after") = <<"mC", "mB">>
    /\ \A k \in 1..2 :
          Events(rq[1].log, "after")[k].resp = rq[1].result

-----------------------------------------------------------------------------
(* The failure model: one router, units and handlers that may throw, a     *)
(* unit that catches, one route at "/", and a request that is served step  *)
(* by step.                                                                *)

FailUnits == {"mB", "mFail", "rFail", "rCatch"}

FailHandlers == {"h1", "hFail"}

FailUse ==
    \E md \in FailUnits :
        /\ ~Serving
        /\ Len(arrays[toads[1].stack]) < MaxFail
        /\ use(1, md)

FailVerb ==
    \E fn \in FailHandlers :
        /\ ~Serving
        /\ Routes(1) = {}
        /\ verb(1, "GET", <<"/">>, fn)

NextFail == FailUse \/ FailVerb \/ Handle \/ Step \/ Release

SpecFail == Init /\ [][NextFail]_vars

\* the function at index k of the chain: a unit of the stack, or the handler
FnAt(s, k) ==
    IF k < Len(StackOf(s)) THEN StackOf(s)[k + 1]
    ELSE rq[s].handler.store.handler

\* positions of the log where a function threw a failure of its own
Thrown(s) ==
    {z \in DOMAIN rq[s].log :
        /\ rq[s].log[z].ev = "throw"
        /\ rq[s].log[z].resp.by = FnAt(s, rq[s].log[z].idx)}

\* the index of the nearest unit around index k that catches, -1 if none
Catcher(s, k) ==
    LET js == {j \in 0..(k - 1) : Unit(StackOf(s)[j + 1]).flow = "catch"}
    IN  IF js = {} THEN -1 ELSE Max(js)

\* after the failure thrown at position z nothing is invoked; the calls of
\* next of the units around it, up to the nearest that catches, yield the
\* failure, and those of them that do not catch throw it on and run no
\* after callback; handle yields the failure when none catches, and else
\* what the unit that catches makes of it
FailureSurfaces(s, z) ==
    LET log == rq[s].log
        k == log[z].idx
        c == Catcher(s, k)
    IN  /\ \A p \in DOMAIN log :
              p > z => log[p].ev \notin {"middleware", "handler", "notFound",
                                         "before", "next"}
        /\ \A p \in DOMAIN log :
              (p > z /\ log[p].ev = "resumed" /\ log[p].idx >= c)
                  => log[p].resp = log[z].resp
        /\ \A j \in (c + 1)..(k - 1) :
              /\ Afters(log, j) = {}
              /\ Returns(log, j) = {}
        /\ Done(s) =>
              /\ \A j \in (c + 1)..(k - 1) :
                    \E p \in DOMAIN log :
                        /\ log[p].ev = "throw"
                        /\ log[p].idx = j
                        /\ log[p].resp = log[z].resp
              /\ IF c = -1
                 THEN rq[s].result = log[z].resp
                 ELSE /\ ~IsFailure(rq[s].result)
                      /\ rq[s].result = OwnResponse(StackOf(s)[c + 1])

\* C16: when a unit or the handler throws, the runner invokes nothing any
\* more, every call of next around it yields the failure, no after
\* callback of a createMiddleware unit around it runs, and handle yields
\* the failure, not a 404 or another response, unless a hand-written unit
\* around it catches the failure and answers by itself.
C16_FailureIsNotCaught ==
    InFlight(1) =>
        /\ Cardinality(Thrown(1)) <= 1
        /\ \A z \in Thrown(1) : FailureSurfaces(1, z)
        /\ (Done(1) /\ IsFailure(rq[1].result)) => Thrown(1) # {}

\* the handler threw under mB and mB: both threw it on, no after callback
\* ran, and handle yielded the failure
C16_Witness ==
    /\ Done(1)
    /\ StackOf(1) = <<"mB", "mB">>
    /\ rq[1].result = Failure("hFail")
    /\ Events(rq[1].log, "after") = <<>>
    /\ Len(Events(rq[1].log, "throw")) = 3
    /\ Len(Events(rq[1].log, "before")) = 2

-----------------------------------------------------------------------------
(* The normalizer model: every string of slashes and letters up to a       *)
(* length is registered as the path of a route, and requested.             *)

NormInputs == UNION {[1..k -> {"/", "a"}] : k \in 0..MaxNormLen}

NormVerb ==
    \E p \in NormInputs :
        /\ ~Serving
        /\ Routes(1) = {}
        /\ verb(1, "GET", p, "h1")

NormServe ==
    \E p \in NormInputs :
        /\ ~Serving
        /\ rq' = [rq EXCEPT ![1] =
                     RunToEnd(handle(1, [method |-> "GET",
                                         url |-> Origin \o <<"/">> \o p]))]
        /\ UNCHANGED <<toads, arrays, router, stackRouter>>

NextNorm == NormVerb \/ NormServe \/ Release

SpecNorm == Init /\ [][NextNorm]_vars

\* n is a path in normal form: one slash at its beginning, no two slashes
\* in a row, no slash at its end unless it is "/"
IsNormal(n) ==
    /\ n # <<>>
    /\ n[1] = "/"
    /\ Len(n) > 1 => n[2] # "/"
    /\ \A i \in 1..(Len(n) - 1) : ~(n[i] = "/" /\ n[i + 1] = "/")
    /\ n = <<"/">> \/ n[Len(n)] # "/"

\* n is what normalizing p is to yield
Normalizes(p, n) ==
    /\ IsNormal(n)
    /\ Segments(n) = Segments(p)
    /\ normalizePath(n) = n
    /\ (\A i \in DOMAIN p : p[i] = "/") => n = <<"/">>

\* C18: whatever string is registered or requested, its normalization
\* begins with exactly one slash, has no two slashes in a row and no slash
\* at its end unless it is "/", keeps the segments, and is its own
\* normalization; the empty string and the strings of slashes yield "/".
C18_NormalizeIsIdempotent ==
    /\ \A e \in RouteTable :
          /\ e.path = normalizePath(e.store.matchingRoute)
          /\ Normalizes(e.store.matchingRoute, e.path)
    /\ Done(1) =>
          /\ Normalizes(UrlPath(rq[1].request.url),
                        normalizePath(UrlPath(rq[1].request.url)))
          /\ rq[1].handler # Null =>
                rq[1].handler.store.stack \in DOMAIN arrays
          /\ rq[1].handler # Null <=>
                \E e \in RouteTable :
                    Segments(e.path) = Segments(Pathname(rq[1].request))

\* "//a/" was registered under "/a", and "/a//" requested and routed to it
C18_Witness ==
    /\ Routed(1)
    /\ rq[1].handler.store.matchingRoute = <<"/", "/", "a", "/">>
    /\ \E e \in RouteTable : e.path = <<"/", "a">>
    /\ UrlPath(rq[1].request.url) = <<"/", "a", "/", "/">>

-----------------------------------------------------------------------------
(* The termination model: one router, units that call next once, twice or  *)
(* not at all or that throw, handlers that return or throw, one route at   *)
(* "/", and a request whose steps each come to be run.                     *)

LiveUnits == {"mB", "rShort", "rTwice", "rFail"}

LiveUse ==
    \E md \in LiveUnits :
        /\ ~Serving
        /\ Len(arrays[toads[1].stack]) < MaxLive
        /\ use(1, md)

NextLive == LiveUse \/ FailVerb \/ Handle \/ Step \/ Release

\* a unit that is awaited and can run is run: the steps of the chain are
\* promise reactions, and each of them returns
SpecLive == Init /\ [][NextLive]_vars /\ WF_vars(Step)

\* the number of events of log that satisfy Sel
Count(log, Sel(_)) == Len(SelectSeq(log, Sel))

\* so far no unit of the request in slot s called next a second time
NextAtMostOnce(s) ==
    \A k \in 0..Len(arrays[rq[s].stack]) :
        Count(rq[s].log, LAMBDA e : e.ev = "next" /\ e.by = k) <= 1

\* each unit was invoked at most once, the handler or the 404 at most
\* once, and the chain is no deeper than the stack and the handler
RunsOnce(s) ==
    LET n == Len(arrays[rq[s].stack])
    IN  /\ \A k \in 0..n :
              Count(rq[s].log, LAMBDA e : e.ev = "middleware" /\ e.idx = k) <= 1
        /\ Count(rq[s].log, LAMBDA e : e.ev \in {"handler", "notFound"}) <= 1
        /\ Len(rq[s].frames) <= n + 1

DispatchIsBounded ==
    \A s \in Slots :
        (InFlight(s) /\ rq[s].stack # Null /\ NextAtMostOnce(s)) => RunsOnce(s)

HandleYields(s) ==
    /\ Done(s)
    /\ rq[s].frames = <<>>
    /\ rq[s].result # Null

\* C19: while no unit of a request has called next a second time, each of
\* its units was invoked at most once, the handler or the 404 at most once
\* and the chain is at most one deeper than the stack is long; and a
\* request that is being run comes to yield a response or a failure.
C19_DispatchTerminates ==
    /\ []DispatchIsBounded
    /\ \A s \in Slots : (rq[s].st = "run") ~> HandleYields(s)

\* three units are waiting for their next call, and the handler is running
C19_Witness ==
    /\ rq[1].st = "run"
    /\ Len(arrays[rq[1].stack]) = 3
    /\ Len(rq[1].frames) = 4
    /\ NextAtMostOnce(1)
    /\ Count(rq[1].log, LAMBDA e : e.ev = "middleware") = 3
    /\ Count(rq[1].log, LAMBDA e : e.ev = "handler") = 1

====
